---- MODULE Spec2Model ----
(***************************************************************************)
(* State-machine model of the CSV data-pack editor (src/App.tsx): the      *)
(* master row list `data`, the cached filtered view `filteredData`, the    *)
(* search / team filter parameters and the page state, with one action per *)
(* event handler of the App component.                                     *)
(*                                                                         *)
(* Text is modelled as a sequence of one-character strings so that trim,   *)
(* toLowerCase and includes are computed, not assumed.                     *)
(* A row (CsvRow) is a function from column name to text.                  *)
(***************************************************************************)
EXTENDS Integers, Sequences, FiniteSets, TLC

VARIABLES
    data,               \* useState<CsvRow[]>      App.tsx:18  master collection
    filteredData,       \* useState<CsvRow[]>      App.tsx:19  cached view
    headers,            \* useState<string[]>      App.tsx:20  column list
    error,              \* useState<string>        App.tsx:22
    searchTerm,         \* typed search text       App.tsx:25
    activeSearchTerm,   \* submitted search text   App.tsx:26
    activeTeamFilter,   \* string | null           App.tsx:27
    currentPage,        \* App.tsx:29
    rowsPerPage,        \* App.tsx:30
    edits               \* number of cell edits since the last successful load (exploration bound only)

vars == <<data, filteredData, headers, error, searchTerm, activeSearchTerm,
          activeTeamFilter, currentPage, rowsPerPage, edits>>

----------------------------------------------------------------------------
(* Bounds of the exploration *)

MaxRows == 2          \* rows in a parsed file handed to handleFileLoaded
MaxEdits == 1         \* cell edits explored after each load
MaxPageReq == 2       \* largest "near" page number a page-change request carries
FarPage == 10         \* a page number far beyond the last page

(* Program constant *)
DEFAULT_ROWS_PER_PAGE == 50

----------------------------------------------------------------------------
(* Text helpers: JavaScript String.prototype.trim / toLowerCase / includes *)

NoText == << >>
Null == "null"

Range(s) == { s[i] : i \in 1..Len(s) }

IsSpace(c) == c = " "

LowerChar(c) ==
    CASE c = "A" -> "a"
      [] c = "B" -> "b"
      [] OTHER   -> c

toLowerCase(s) == [i \in 1..Len(s) |-> LowerChar(s[i])]

RECURSIVE trimStart(_)
trimStart(s) ==
    IF s # << >> /\ IsSpace(Head(s)) THEN trimStart(Tail(s)) ELSE s

RECURSIVE trimEnd(_)
trimEnd(s) ==
    IF s # << >> /\ IsSpace(s[Len(s)]) THEN trimEnd(SubSeq(s, 1, Len(s) - 1)) ELSE s

trim(s) == trimEnd(trimStart(s))

includes(s, t) ==
    \E i \in 0..(Len(s) - Len(t)) : SubSeq(s, i + 1, i + Len(t)) = t

(* Array.prototype.slice(start, end) with JavaScript's index normalisation:  *)
(* a negative index counts from the end, indices are clipped to [0, length]. *)
RelIndex(i, len) ==
    IF i < 0 THEN (IF len + i < 0 THEN 0 ELSE len + i)
    ELSE (IF i > len THEN len ELSE i)

slice(s, start, end) ==
    LET from == RelIndex(start, Len(s))
        to   == RelIndex(end, Len(s))
    IN  IF from >= to THEN << >> ELSE SubSeq(s, from + 1, to)

----------------------------------------------------------------------------
(* Team configuration (./data/teams, imported at App.tsx:10) *)

TEAMS == << [key |-> "t1", name |-> "Team 1", ids |-> << <<"1">>, <<"9">> >>] >>

TeamConfigured(k) == \E i \in 1..Len(TEAMS) : TEAMS[i].key = k

\* Object.fromEntries(TEAMS.map(team => [team.key, team.ids]))
TEAM_IDS(k) == LET i == CHOOSE j \in 1..Len(TEAMS) : TEAMS[j].key = k
               IN  Range(TEAMS[i].ids)

\* TEAM_IDS is a plain object (Object.fromEntries): a lookup of a key it does not own
\* falls through to Object.prototype, so TEAM_IDS["constructor"] is a function, which
\* is truthy and is not iterable
ObjectPrototypeKeys == { "constructor" }

\* new Set(TEAM_IDS[teamToApply]) throws a TypeError on a value that is not iterable
teamLookupThrows(teamToApply) ==
    teamToApply # Null /\ ~TeamConfigured(teamToApply) /\ teamToApply \in ObjectPrototypeKeys

----------------------------------------------------------------------------
(* Filter engine: the value runFilters hands to setFilteredData *)

keyColumnOf(hdrs) == IF Len(hdrs) > 0 THEN hdrs[1] ELSE Null

inTeam(row, hdrs, team) ==
    keyColumnOf(hdrs) \in DOMAIN row /\ row[keyColumnOf(hdrs)] \in TEAM_IDS(team)

teamStage(sourceData, teamToApply, hdrs) ==
    IF teamToApply # Null /\ TeamConfigured(teamToApply)
    THEN IF keyColumnOf(hdrs) # Null
         THEN LET keep(row) == inTeam(row, hdrs, teamToApply)
              IN  SelectSeq(sourceData, keep)
         ELSE sourceData
    ELSE sourceData

rowMatches(row, lowercasedSearchTerm) ==
    \E c \in DOMAIN row : includes(toLowerCase(row[c]), lowercasedSearchTerm)

\* variant of searchStage that compares the term as typed, without case-folding it
searchStage_caseSensitive(results, termToApply) ==
    LET typedTerm == trim(termToApply)
    IN  IF typedTerm # NoText
        THEN LET keep(row) == rowMatches(row, typedTerm)
             IN  SelectSeq(results, keep)
        ELSE results

searchStage(results, termToApply) ==
    LET lowercasedSearchTerm == toLowerCase(trim(termToApply))
    IN  IF lowercasedSearchTerm # NoText
        THEN LET keep(row) == rowMatches(row, lowercasedSearchTerm)
             IN  SelectSeq(results, keep)
        ELSE results

\* variant of filterResults in which the search stage starts again from the source
filterResults_searchOnly(sourceData, termToApply, teamToApply, hdrs) ==
    IF trim(termToApply) # NoText
    THEN searchStage(sourceData, termToApply)
    ELSE teamStage(sourceData, teamToApply, hdrs)

\* variant of filterResults that takes the first source row for a header line
filterResults_afterHeaderRow(sourceData, termToApply, teamToApply, hdrs) ==
    IF sourceData = << >> THEN << >>
    ELSE searchStage(teamStage(Tail(sourceData), teamToApply, hdrs), termToApply)

filterResults(sourceData, termToApply, teamToApply, hdrs) ==
    searchStage(teamStage(sourceData, teamToApply, hdrs), termToApply)

----------------------------------------------------------------------------
(* Pagination: derived values of a render *)

ceilDiv(n, p) == (n + p - 1) \div p

totalPagesOf(view, size) == IF ceilDiv(Len(view), size) = 0 THEN 1 ELSE ceilDiv(Len(view), size)

startIndexOf(page, size) == (page - 1) * size

\* variant of paginatedDataOf whose slice ends one row early
paginatedDataOf_shortSlice(view, page, size) ==
    slice(view, startIndexOf(page, size), startIndexOf(page, size) + size - 1)

paginatedDataOf(view, page, size) ==
    slice(view, startIndexOf(page, size), startIndexOf(page, size) + size)

totalRows == Len(filteredData)
totalPages == totalPagesOf(filteredData, rowsPerPage)
startIndex == startIndexOf(currentPage, rowsPerPage)
paginatedData == paginatedDataOf(filteredData, currentPage, rowsPerPage)

\* The clamp effect of App.tsx:237-241 is scheduled by the render whose page is past the end
effectPending == currentPage > totalPages

----------------------------------------------------------------------------
Init ==
    /\ data = << >>
    /\ filteredData = << >>
    /\ headers = << >>
    /\ error = NoText
    /\ searchTerm = NoText
    /\ activeSearchTerm = NoText
    /\ activeTeamFilter = Null
    /\ currentPage = 1
    /\ rowsPerPage = DEFAULT_ROWS_PER_PAGE
    /\ edits = 0

(* Inputs the handlers are driven with *)

\* meta.fields of a parsed file
FieldLists == { <<"id">>, <<"id", "name", "note">> }

\* field values a parsed file carries, per column
CellValues(col) ==
    CASE col = "id"   -> { <<"1">>, NoText }
      [] col = "name" -> { <<"b", "A">>, <<" ">> }
      [] OTHER        -> { NoText }

ParsedRows(fields) ==
    LET cols == Range(fields)
        all  == UNION { CellValues(c) : c \in cols }
    IN  { r \in [cols -> all] : \A c \in cols : r[c] \in CellValues(c) }

ParsedData(fields) == UNION { [1..n -> ParsedRows(fields)] : n \in 0..MaxRows }

\* results.errors: the messages of the reported parse errors, in order
ParseErrors == { << >>, <<"e1", "e2">> }

\* what the CSV decoder hands to handleFileLoaded; a result that reports errors may
\* carry rows as well
ParseResults ==
    UNION { { [errors |-> << >>, fields |-> f, data |-> d] : d \in ParsedData(f) }
            \cup { [errors |-> e, fields |-> f, data |-> d] :
                      e \in ParseErrors \ { << >> },
                      d \in { x \in ParsedData(f) : Len(x) <= 1 } }
            : f \in FieldLists }

EditValues == { <<"b">> }

SearchTerms == { NoText, <<" ", "A">> }

TeamKeys == { "t1", "zz" }

PageSizes == { 2, DEFAULT_ROWS_PER_PAGE }

RequestedPages == (0 .. MaxPageReq) \cup { FarPage }

----------------------------------------------------------------------------
(* Messages handed to setError *)

parseErrorMessage(errors) ==
    <<"Erro ao analisar o CSV: ", errors[1], ". Por favor, verifique o formato do arquivo.">>

emptyFileMessage == <<"O arquivo CSV esta vazio ou nao pode ser analisado corretamente.">>

legendsColumnsMessage ==
    <<"Para adicionar lendas, o CSV carregado deve ter pelo menos duas colunas (chave e nome).">>

----------------------------------------------------------------------------
(* handleFileLoaded *)

isBlank(value) == value = NoText \/ trim(value) = NoText

nonEmptyRow(row, fields) ==
    \E i \in 1..Len(fields) : fields[i] \in DOMAIN row /\ ~isBlank(row[fields[i]])

\* variant of nonEmptyDataOf that keeps a row only when its first field is not blank
nonEmptyDataOf_keyOnly(rows, fields) ==
    LET keep(row) == Len(fields) > 0 /\ fields[1] \in DOMAIN row /\ ~isBlank(row[fields[1]])
    IN  SelectSeq(rows, keep)

nonEmptyDataOf(rows, fields) ==
    LET keep(row) == nonEmptyRow(row, fields)
    IN  SelectSeq(rows, keep)

\* variant of fileLoaded that loads the rows of a result that reports errors
fileLoaded_partialRecovery(results) ==
    IF Len(nonEmptyDataOf(results.data, results.fields)) = 0
    THEN /\ error' = IF Len(results.errors) > 0
                     THEN parseErrorMessage(results.errors) ELSE emptyFileMessage
         /\ UNCHANGED <<data, filteredData, headers, searchTerm, activeSearchTerm,
                        activeTeamFilter, currentPage, rowsPerPage, edits>>
    ELSE /\ error' = IF Len(results.errors) > 0
                     THEN parseErrorMessage(results.errors) ELSE NoText
         /\ headers' = results.fields
         /\ data' = nonEmptyDataOf(results.data, results.fields)
         /\ filteredData' = nonEmptyDataOf(results.data, results.fields)
         /\ currentPage' = 1
         /\ searchTerm' = NoText
         /\ activeSearchTerm' = NoText
         /\ activeTeamFilter' = Null
         /\ edits' = 0
         /\ UNCHANGED rowsPerPage

\* variant of fileLoaded that loads a file without any non-blank row as an empty dataset
fileLoaded_emptyLoad(results) ==
    IF Len(results.errors) > 0
    THEN /\ error' = parseErrorMessage(results.errors)
         /\ UNCHANGED <<data, filteredData, headers, searchTerm, activeSearchTerm,
                        activeTeamFilter, currentPage, rowsPerPage, edits>>
    ELSE /\ error' = IF Len(nonEmptyDataOf(results.data, results.fields)) = 0
                     THEN emptyFileMessage ELSE NoText
         /\ headers' = results.fields
         /\ data' = nonEmptyDataOf(results.data, results.fields)
         /\ filteredData' = nonEmptyDataOf(results.data, results.fields)
         /\ currentPage' = 1
         /\ searchTerm' = NoText
         /\ activeSearchTerm' = NoText
         /\ activeTeamFilter' = Null
         /\ edits' = 0
         /\ UNCHANGED rowsPerPage

\* variant of fileLoaded that stores the field list before it looks at the errors
fileLoaded_headersFirst(results) ==
    IF Len(results.errors) > 0
    THEN /\ error' = parseErrorMessage(results.errors)
         /\ headers' = results.fields
         /\ UNCHANGED <<data, filteredData, searchTerm, activeSearchTerm,
                        activeTeamFilter, currentPage, rowsPerPage, edits>>
    ELSE IF Len(nonEmptyDataOf(results.data, results.fields)) = 0
    THEN /\ error' = emptyFileMessage
         /\ headers' = results.fields
         /\ UNCHANGED <<data, filteredData, searchTerm, activeSearchTerm,
                        activeTeamFilter, currentPage, rowsPerPage, edits>>
    ELSE /\ error' = NoText
         /\ headers' = results.fields
         /\ data' = nonEmptyDataOf(results.data, results.fields)
         /\ filteredData' = nonEmptyDataOf(results.data, results.fields)
         /\ currentPage' = 1
         /\ searchTerm' = NoText
         /\ activeSearchTerm' = NoText
         /\ activeTeamFilter' = Null
         /\ edits' = 0
         /\ UNCHANGED rowsPerPage

fileLoaded(results) ==
    IF Len(results.errors) > 0
    THEN /\ error' = parseErrorMessage(results.errors)
         /\ UNCHANGED <<data, filteredData, headers, searchTerm, activeSearchTerm,
                        activeTeamFilter, currentPage, rowsPerPage, edits>>
    ELSE IF Len(nonEmptyDataOf(results.data, results.fields)) = 0
    THEN /\ error' = emptyFileMessage
         /\ UNCHANGED <<data, filteredData, headers, searchTerm, activeSearchTerm,
                        activeTeamFilter, currentPage, rowsPerPage, edits>>
    ELSE /\ error' = NoText
         /\ headers' = results.fields
         /\ data' = nonEmptyDataOf(results.data, results.fields)
         /\ filteredData' = nonEmptyDataOf(results.data, results.fields)
         /\ currentPage' = 1
         /\ searchTerm' = NoText
         /\ activeSearchTerm' = NoText
         /\ activeTeamFilter' = Null
         /\ edits' = 0
         /\ UNCHANGED rowsPerPage

handleFileLoaded ==
    /\ ~effectPending
    /\ \E results \in ParseResults : fileLoaded(results)

\* variant of handleReset that leaves the page size as the user set it
handleReset_keepPageSize ==
    /\ ~effectPending
    /\ data' = << >>
    /\ filteredData' = << >>
    /\ headers' = << >>
    /\ error' = NoText
    /\ currentPage' = 1
    /\ searchTerm' = NoText
    /\ activeSearchTerm' = NoText
    /\ activeTeamFilter' = Null
    /\ UNCHANGED <<rowsPerPage, edits>>

handleReset ==
    /\ ~effectPending
    /\ data' = << >>
    /\ filteredData' = << >>
    /\ headers' = << >>
    /\ error' = NoText
    /\ currentPage' = 1
    /\ rowsPerPage' = DEFAULT_ROWS_PER_PAGE
    /\ searchTerm' = NoText
    /\ activeSearchTerm' = NoText
    /\ activeTeamFilter' = Null
    /\ UNCHANGED edits

----------------------------------------------------------------------------
(* handleDataChange *)

\* { ...row, [columnId]: value } for the rows whose key equals the edited row's key
updateRow(row, keyColumn, editedKey, columnId, value) ==
    IF keyColumn \in DOMAIN row /\ row[keyColumn] = editedKey
    THEN [c \in DOMAIN row \cup {columnId} |-> IF c = columnId THEN value ELSE row[c]]
    ELSE row

\* variant of mapUpdateRow that stops at the first row with the edited key
mapUpdateRow_firstMatch(rows, keyColumn, editedKey, columnId, value) ==
    [i \in 1..Len(rows) |->
        IF \E j \in 1..(i - 1) : keyColumn \in DOMAIN rows[j] /\ rows[j][keyColumn] = editedKey
        THEN rows[i]
        ELSE updateRow(rows[i], keyColumn, editedKey, columnId, value)]

mapUpdateRow(rows, keyColumn, editedKey, columnId, value) ==
    [i \in 1..Len(rows) |-> updateRow(rows[i], keyColumn, editedKey, columnId, value)]

\* variant of editCell that patches the master only
editCell_masterOnly(rowToUpdate, columnId, value) ==
    LET keyColumn == keyColumnOf(headers)
    IN  /\ keyColumn # Null
        /\ data' = mapUpdateRow(data, keyColumn, rowToUpdate[keyColumn], columnId, value)
        /\ edits' = edits + 1
        /\ UNCHANGED <<filteredData, headers, error, searchTerm, activeSearchTerm,
                       activeTeamFilter, currentPage, rowsPerPage>>

\* variant of editCell that derives the view again from the edited master
editCell_refilters(rowToUpdate, columnId, value) ==
    LET keyColumn == keyColumnOf(headers)
    IN  /\ keyColumn # Null
        /\ data' = mapUpdateRow(data, keyColumn, rowToUpdate[keyColumn], columnId, value)
        /\ filteredData' =
               filterResults(mapUpdateRow(data, keyColumn, rowToUpdate[keyColumn], columnId, value),
                             activeSearchTerm, activeTeamFilter, headers)
        /\ currentPage' = 1
        /\ edits' = edits + 1
        /\ UNCHANGED <<headers, error, searchTerm, activeSearchTerm, activeTeamFilter,
                       rowsPerPage>>

editCell(rowToUpdate, columnId, value) ==
    LET keyColumn == keyColumnOf(headers)
    IN  /\ keyColumn # Null
        /\ data' = mapUpdateRow(data, keyColumn, rowToUpdate[keyColumn], columnId, value)
        /\ filteredData' =
               mapUpdateRow(filteredData, keyColumn, rowToUpdate[keyColumn], columnId, value)
        /\ edits' = edits + 1
        /\ UNCHANGED <<headers, error, searchTerm, activeSearchTerm, activeTeamFilter,
                       currentPage, rowsPerPage>>

handleDataChange ==
    /\ ~effectPending
    /\ edits < MaxEdits
    /\ \/ /\ keyColumnOf(headers) = Null
          /\ UNCHANGED vars
       \/ \E rowToUpdate \in Range(data), columnId \in Range(headers), value \in EditValues :
             editCell(rowToUpdate, columnId, value)

----------------------------------------------------------------------------
(* runFilters: setFilteredData(results); setCurrentPage(1).  When the team lookup *)
(* throws, the handler is left before either setter is called; the state updates  *)
(* the handler queued before calling runFilters are still applied.                *)

\* variant of runFilters that leaves the current page where it is
runFilters_keepsPage(sourceData, termToApply, teamToApply) ==
    IF teamLookupThrows(teamToApply)
    THEN UNCHANGED <<filteredData, currentPage>>
    ELSE /\ filteredData' = filterResults(sourceData, termToApply, teamToApply, headers)
         /\ UNCHANGED currentPage

runFilters(sourceData, termToApply, teamToApply) ==
    IF teamLookupThrows(teamToApply)
    THEN UNCHANGED <<filteredData, currentPage>>
    ELSE /\ filteredData' = filterResults(sourceData, termToApply, teamToApply, headers)
         /\ currentPage' = 1

----------------------------------------------------------------------------
(* handleAddLegends *)

\* the lines of the legends literal, as <<id, name>>; one id occurs on two lines
legendsCsv == << << <<"1">>, <<"A", "b">> >>,
                 << <<"9">>, <<"B">> >>,
                 << <<"1">>, <<"A">> >> >>

newRowOf(line, hdrs) ==
    [c \in Range(hdrs) |->
        IF c = hdrs[2] THEN line[2]
        ELSE IF c = hdrs[1] THEN line[1]
        ELSE NoText]

newRowsOf(hdrs) == [i \in 1..Len(legendsCsv) |-> newRowOf(legendsCsv[i], hdrs)]

existingKeysOf(rows, keyColumn) == { rows[i][keyColumn] : i \in 1..Len(rows) }

\* variant of uniqueNewRowsOf that also drops a candidate whose key an earlier
\* candidate carries
uniqueNewRowsOf_dedupBatch(rows, hdrs) ==
    LET cand == newRowsOf(hdrs)
        idx  == { i \in 1..Len(cand) :
                    /\ cand[i][hdrs[1]] \notin existingKeysOf(rows, hdrs[1])
                    /\ \A j \in 1..(i - 1) : cand[j][hdrs[1]] # cand[i][hdrs[1]] }
        keep(row) == \E i \in idx : cand[i] = row
    IN  SelectSeq(cand, keep)

uniqueNewRowsOf(rows, hdrs) ==
    LET keep(row) == row[hdrs[1]] \notin existingKeysOf(rows, hdrs[1])
    IN  SelectSeq(newRowsOf(hdrs), keep)

\* variant of handleAddLegends that reports the missing column and refreshes the view
handleAddLegends_refresh ==
    /\ ~effectPending
    /\ IF Len(headers) < 2
       THEN /\ error' = legendsColumnsMessage
            /\ runFilters(data, activeSearchTerm, activeTeamFilter)
            /\ UNCHANGED <<data, headers, searchTerm, activeSearchTerm, activeTeamFilter,
                           rowsPerPage, edits>>
       ELSE IF Len(uniqueNewRowsOf(data, headers)) = 0
       THEN UNCHANGED vars
       ELSE /\ data' = data \o uniqueNewRowsOf(data, headers)
            /\ runFilters(data \o uniqueNewRowsOf(data, headers),
                          activeSearchTerm, activeTeamFilter)
            /\ UNCHANGED <<headers, error, searchTerm, activeSearchTerm, activeTeamFilter,
                           rowsPerPage, edits>>

\* variant of handleAddLegends that runs the filters even when no row is added
handleAddLegends_alwaysRefilters ==
    /\ ~effectPending
    /\ IF Len(headers) < 2
       THEN /\ error' = legendsColumnsMessage
            /\ UNCHANGED <<data, filteredData, headers, searchTerm, activeSearchTerm,
                           activeTeamFilter, currentPage, rowsPerPage, edits>>
       ELSE /\ data' = data \o uniqueNewRowsOf(data, headers)
            /\ runFilters(data \o uniqueNewRowsOf(data, headers),
                          activeSearchTerm, activeTeamFilter)
            /\ UNCHANGED <<headers, error, searchTerm, activeSearchTerm, activeTeamFilter,
                           rowsPerPage, edits>>

handleAddLegends ==
    /\ ~effectPending
    /\ IF Len(headers) < 2
       THEN /\ error' = legendsColumnsMessage
            /\ UNCHANGED <<data, filteredData, headers, searchTerm, activeSearchTerm,
                           activeTeamFilter, currentPage, rowsPerPage, edits>>
       ELSE IF Len(uniqueNewRowsOf(data, headers)) = 0
       THEN UNCHANGED vars
       ELSE /\ data' = data \o uniqueNewRowsOf(data, headers)
            /\ runFilters(data \o uniqueNewRowsOf(data, headers),
                          activeSearchTerm, activeTeamFilter)
            /\ UNCHANGED <<headers, error, searchTerm, activeSearchTerm, activeTeamFilter,
                           rowsPerPage, edits>>

----------------------------------------------------------------------------
(* Search and team filter handlers *)

\* onChange of the search input
setSearchTerm ==
    /\ ~effectPending
    /\ \E text \in SearchTerms : searchTerm' = text
    /\ UNCHANGED <<data, filteredData, headers, error, activeSearchTerm, activeTeamFilter,
                   currentPage, rowsPerPage, edits>>

\* variant of triggerSearch that filters the cached view instead of the master
triggerSearch_fromView ==
    /\ ~effectPending
    /\ activeSearchTerm' = trim(searchTerm)
    /\ runFilters(filteredData, trim(searchTerm), activeTeamFilter)
    /\ UNCHANGED <<data, headers, error, searchTerm, activeTeamFilter, rowsPerPage, edits>>

\* variant of triggerSearch that keeps the search result as the master
triggerSearch_narrowsMaster ==
    /\ ~effectPending
    /\ activeSearchTerm' = trim(searchTerm)
    /\ runFilters(data, trim(searchTerm), activeTeamFilter)
    /\ data' = searchStage(data, trim(searchTerm))
    /\ UNCHANGED <<headers, error, searchTerm, activeTeamFilter, rowsPerPage, edits>>

triggerSearch ==
    /\ ~effectPending
    /\ activeSearchTerm' = trim(searchTerm)
    /\ runFilters(data, trim(searchTerm), activeTeamFilter)
    /\ UNCHANGED <<data, headers, error, searchTerm, activeTeamFilter, rowsPerPage, edits>>

handleClearSearch ==
    /\ ~effectPending
    /\ searchTerm' = NoText
    /\ activeSearchTerm' = NoText
    /\ runFilters(data, NoText, activeTeamFilter)
    /\ UNCHANGED <<data, headers, error, activeTeamFilter, rowsPerPage, edits>>

selectTeam(teamKey) ==
    /\ activeTeamFilter' = teamKey
    /\ runFilters(data, activeSearchTerm, teamKey)
    /\ UNCHANGED <<data, headers, error, searchTerm, activeSearchTerm, rowsPerPage, edits>>

handleSelectTeam ==
    /\ ~effectPending
    /\ \E teamKey \in TeamKeys : selectTeam(teamKey)

\* handleSelectTeam called with any string: the keys above and a key that names a
\* property every object inherits
AnyTeamKeys == TeamKeys \cup ObjectPrototypeKeys

handleSelectTeamOfAnyKey ==
    /\ ~effectPending
    /\ \E teamKey \in AnyTeamKeys : selectTeam(teamKey)

handleClearTeamFilter ==
    /\ ~effectPending
    /\ activeTeamFilter' = Null
    /\ runFilters(data, activeSearchTerm, Null)
    /\ UNCHANGED <<data, headers, error, searchTerm, activeSearchTerm, rowsPerPage, edits>>

----------------------------------------------------------------------------
(* Pagination handlers and the clamp effect *)

\* onPageChange={setCurrentPage}
onPageChange ==
    /\ ~effectPending
    /\ \E page \in RequestedPages : currentPage' = page
    /\ UNCHANGED <<data, filteredData, headers, error, searchTerm, activeSearchTerm,
                   activeTeamFilter, rowsPerPage, edits>>

onRowsPerPageChange ==
    /\ ~effectPending
    /\ \E size \in PageSizes : rowsPerPage' = size
    /\ currentPage' = 1
    /\ UNCHANGED <<data, filteredData, headers, error, searchTerm, activeSearchTerm,
                   activeTeamFilter, edits>>

\* variant of clampEffect that steps back one page at a time
clampEffect_stepDown ==
    /\ currentPage > totalPages
    /\ currentPage' = currentPage - 1
    /\ UNCHANGED <<data, filteredData, headers, error, searchTerm, activeSearchTerm,
                   activeTeamFilter, rowsPerPage, edits>>

\* useEffect(() => { if (currentPage > totalPages) setCurrentPage(totalPages) })
clampEffect ==
    /\ currentPage > totalPages
    /\ currentPage' = totalPages
    /\ UNCHANGED <<data, filteredData, headers, error, searchTerm, activeSearchTerm,
                   activeTeamFilter, rowsPerPage, edits>>

----------------------------------------------------------------------------
(* handleDownload: Papa.unparse(data) is handed the master collection *)

\* variant of unparseInput that hands over the rows on display
unparseInput_view == filteredData

unparseInput == data

handleDownload ==
    /\ ~effectPending
    /\ UNCHANGED vars

----------------------------------------------------------------------------
Next ==
    \/ handleFileLoaded
    \/ handleReset
    \/ handleDataChange
    \/ handleAddLegends
    \/ setSearchTerm
    \/ triggerSearch
    \/ handleClearSearch
    \/ handleSelectTeam
    \/ handleClearTeamFilter
    \/ onPageChange
    \/ onRowsPerPageChange
    \/ clampEffect
    \/ handleDownload

Spec == Init /\ [][Next]_vars

\* the effect of a render runs before the next event is handled: once scheduled, the
\* clamp effect is not postponed for ever
SpecClamp == Spec /\ WF_vars(clampEffect)

\* the same handlers, with handleSelectTeam driven by any string
NextAnyTeamKey ==
    \/ handleFileLoaded
    \/ handleReset
    \/ handleDataChange
    \/ handleAddLegends
    \/ setSearchTerm
    \/ triggerSearch
    \/ handleClearSearch
    \/ handleSelectTeamOfAnyKey
    \/ handleClearTeamFilter
    \/ onPageChange
    \/ onRowsPerPageChange
    \/ clampEffect
    \/ handleDownload

SpecAnyTeamKey == Init /\ [][NextAnyTeamKey]_vars

----------------------------------------------------------------------------
(* Properties.  The statements below are written from the specification's *)
(* wording, independently of the handlers above.                          *)

RECURSIVE IsSubsequence(_, _)
IsSubsequence(a, b) ==
    IF a = << >> THEN TRUE
    ELSE IF b = << >> THEN FALSE
    ELSE IF Head(a) = Head(b) THEN IsSubsequence(Tail(a), Tail(b))
    ELSE IsSubsequence(a, Tail(b))

\* the key column of the loaded file and the key values of a row list, in order
KeyColumn == headers[1]
KeysOf(rows) == [i \in 1..Len(rows) |-> rows[i][KeyColumn]]

\* section 4.2: a row passes when it is in the team (if a configured team is set)
\* AND some column contains the trimmed, case-folded term (if one is set)
PassesTeam(row, team) ==
    (team # Null /\ TeamConfigured(team)) => row[KeyColumn] \in TEAM_IDS(team)

PassesSearch(row, term) ==
    trim(term) # NoText =>
        \E c \in DOMAIN row : includes(toLowerCase(row[c]), toLowerCase(trim(term)))

Apply(master, team, term) ==
    LET passes(row) == PassesTeam(row, team) /\ PassesSearch(row, term)
    IN  SelectSeq(master, passes)

ViewIsFilterOfMaster == filteredData = Apply(data, activeTeamFilter, activeSearchTerm)

isEditStep == edits' = edits + 1

\* C1 (as stated): in every reachable state the cached view equals the filter applied
\* to the master with the active team and search term.  Stated for the states with no
\* team filter, where only the search stage applies and the key column plays no part.
C1_ViewAlwaysFiltered == activeTeamFilter = Null => ViewIsFilterOfMaster

\* C1 (amended): the view equals the filter of the master as long as no cell has been
\* edited since the last load or reset, and every step other than a cell edit keeps
\* the view equal to the filter of the master; a cell edit patches the view in place
\* and may leave it different from the filter result.
C1_ViewFilteredUnlessEdited ==
    /\ []((edits = 0 \/ data = << >>) => ViewIsFilterOfMaster)
    /\ [][~isEditStep => (ViewIsFilterOfMaster => ViewIsFilterOfMaster')]_vars

C1_Witness ==
    /\ edits = 0
    /\ activeTeamFilter = "t1"
    /\ activeSearchTerm = <<"A">>
    /\ Len(filteredData) > 0
    /\ Len(filteredData) < Len(data)
    /\ ViewIsFilterOfMaster

----------------------------------------------------------------------------
\* C2: in every reachable state 1 <= currentPage <= max(1, ceil(|view| / pageSize)).
C2_PageInRange == currentPage >= 1 /\ currentPage <= totalPages

----------------------------------------------------------------------------
\* what section 4.4 / P5 require of an edit of column c of the rows with key k
EditedAsSpecified(before, after, k, c, v) ==
    /\ Len(after) = Len(before)
    /\ \A i \in 1..Len(before) :
          IF before[i][KeyColumn] = k
          THEN /\ DOMAIN after[i] = DOMAIN before[i]
               /\ after[i][c] = v
               /\ \A other \in DOMAIN before[i] \ {c} : after[i][other] = before[i][other]
          ELSE after[i] = before[i]

\* C3: an edit of a non-key column c of the row with key k to value v yields a master
\* of the same length and order in which exactly the rows with key k have c = v and
\* nothing else changed; several rows sharing k are all updated.
C3_EditChangesOnlyTheCell ==
    [][\A rowToUpdate \in Range(data), v \in EditValues :
         \A c \in Range(headers) \ {KeyColumn} :
            editCell(rowToUpdate, c, v)
                => EditedAsSpecified(data, data', rowToUpdate[KeyColumn], c, v)]_vars

\* two rows share a key, both carry the edited value, and a row with another key
\* does not
C3_Witness ==
    /\ edits = 1
    /\ "name" \in Range(headers)
    /\ \E i, j, m \in 1..Len(data) :
          /\ i # j
          /\ data[i][KeyColumn] = data[j][KeyColumn]
          /\ data[i]["name"] = <<"b">>
          /\ data[j]["name"] = <<"b">>
          /\ data[m][KeyColumn] # data[i][KeyColumn]
          /\ data[m]["name"] # <<"b">>

----------------------------------------------------------------------------
\* C4: no edit request, the key column included, changes the sequence of key values
\* of the master or of the view.
C4_EditKeepsKeys ==
    [][isEditStep => (KeysOf(data') = KeysOf(data)
                      /\ KeysOf(filteredData') = KeysOf(filteredData))]_vars

----------------------------------------------------------------------------
\* the candidate batch of an append, and the candidates whose key no row of the
\* master carries
Candidates == newRowsOf(headers)

KeyAbsent(master, row) == \A i \in 1..Len(master) : master[i][KeyColumn] # row[KeyColumn]

AbsentCandidates(master) ==
    LET absent(row) == KeyAbsent(master, row)
    IN  SelectSeq(Candidates, absent)

\* C5: with at least 2 columns loaded, an append yields the master's rows unchanged
\* and in order, followed by exactly the candidates whose key is the key of no row of
\* the master, in candidate order; the number appended is |newMaster| - |master|.
C5_AppendAddsAbsentCandidates ==
    [][(Len(headers) >= 2 /\ handleAddLegends) =>
          /\ Len(data') >= Len(data)
          /\ SubSeq(data', 1, Len(data)) = data
          /\ SubSeq(data', Len(data) + 1, Len(data')) = AbsentCandidates(data)
          /\ Len(AbsentCandidates(data)) = Len(data') - Len(data)]_vars

\* an append kept the loaded row with key 1, skipped both candidates with key 1 and
\* added the candidate with key 9 after it
C5_Witness ==
    /\ Len(headers) = 3
    /\ Len(data) >= 2
    /\ data[1]["id"] = <<"1">>
    /\ data[Len(data)] = newRowOf(legendsCsv[2], headers)
    /\ \A i \in 1..Len(data) : data[i] # newRowOf(legendsCsv[3], headers)

----------------------------------------------------------------------------
TeamArgs == TeamKeys \cup { Null }
TermArgs == SearchTerms \cup { <<" ">>, <<"a">>, <<"A", " ">>, <<"b">>, <<"B">> }

\* C6: apply(M, team, term) is a sub-sequence of apply(M, team, "") which is a
\* sub-sequence of M; every row of the result has its key in the team's ids when the
\* team is configured and has a column containing the trimmed, case-folded term when
\* the term is not empty.
C6_FilterComposition ==
    \A team \in TeamArgs, term \in TermArgs :
        LET both     == filterResults(data, term, team, headers)
            teamOnly == filterResults(data, NoText, team, headers)
        IN  /\ IsSubsequence(both, teamOnly)
            /\ IsSubsequence(teamOnly, data)
            /\ \A i \in 1..Len(both) :
                  /\ PassesTeam(both[i], team)
                  /\ PassesSearch(both[i], term)

\* the displayed view is the result of both stages, each of which dropped a row
C6_Witness ==
    /\ activeTeamFilter = "t1"
    /\ activeSearchTerm = <<"A">>
    /\ filteredData = filterResults(data, activeSearchTerm, activeTeamFilter, headers)
    /\ Len(filteredData) > 0
    /\ Len(filteredData) < Len(filterResults(data, NoText, activeTeamFilter, headers))
    /\ Len(filterResults(data, NoText, activeTeamFilter, headers)) < Len(data)

----------------------------------------------------------------------------
MaxSize == 3          \* page sizes 1..MaxSize are tried on every view

SizeArgs == (1 .. MaxSize) \cup { rowsPerPage }

RECURSIVE ConcatPages(_, _, _)
ConcatPages(view, size, upTo) ==
    IF upTo = 0 THEN << >>
    ELSE ConcatPages(view, size, upTo - 1) \o paginatedDataOf(view, upTo, size)

PagesOf(view, size) ==
    IF Len(view) = 0 THEN 1
    ELSE CHOOSE n \in 1..Len(view) : (n - 1) * size < Len(view) /\ Len(view) <= n * size

\* C7: for every page size p >= 1 the slices of pages 1..max(1, ceil(|V|/p)) of the
\* view V, concatenated, are V; no slice holds more than p rows.
C7_PagesCoverView ==
    \A size \in SizeArgs :
        /\ totalPagesOf(filteredData, size) = PagesOf(filteredData, size)
        /\ ConcatPages(filteredData, size, PagesOf(filteredData, size)) = filteredData
        /\ \A k \in 1..PagesOf(filteredData, size) :
              Len(paginatedDataOf(filteredData, k, size)) <= size

\* the last of three pages of a five-row view is on display and holds its last row
C7_Witness ==
    /\ Len(filteredData) = 5
    /\ rowsPerPage = 2
    /\ currentPage = 3
    /\ paginatedData = <<filteredData[5]>>

----------------------------------------------------------------------------
Clamp(r, lo, hi) == IF r < lo THEN lo ELSE IF r > hi THEN hi ELSE r

\* C8: the page used to compute the visible slice is clamp(requested, 1, totalPages):
\* the slice start index is never negative and never past the last page's start, and
\* the slice is that of the clamped page.
C8_SliceOfClampedPage ==
    /\ startIndex >= 0
    /\ startIndex <= (PagesOf(filteredData, rowsPerPage) - 1) * rowsPerPage
    /\ paginatedData =
          SubSeq(filteredData,
                 (Clamp(currentPage, 1, PagesOf(filteredData, rowsPerPage)) - 1) * rowsPerPage + 1,
                 IF Clamp(currentPage, 1, PagesOf(filteredData, rowsPerPage)) * rowsPerPage
                        > Len(filteredData)
                 THEN Len(filteredData)
                 ELSE Clamp(currentPage, 1, PagesOf(filteredData, rowsPerPage)) * rowsPerPage)

----------------------------------------------------------------------------
\* C9: the view is a sub-sequence of the master with identical content: its rows are
\* rows of the master, column for column, in the master's relative order.
C9_ViewIsSubsequenceOfMaster == IsSubsequence(filteredData, data)

\* an edited row is on display in a view that a filter has narrowed
C9_Witness ==
    /\ edits = 1
    /\ Len(filteredData) > 0
    /\ Len(filteredData) < Len(data)
    /\ \E i \in 1..Len(filteredData) :
          \E c \in DOMAIN filteredData[i] : filteredData[i][c] = <<"b">>
    /\ IsSubsequence(filteredData, data)

----------------------------------------------------------------------------
\* C10: a load whose parse result reports errors is aborted with an error carrying the
\* first reported message; master, columns, view, filter specification and page state
\* stay as they were, whatever rows the result carries.
C10_ParseErrorAbortsLoad ==
    [][\A results \in ParseResults :
         (Len(results.errors) > 0 /\ fileLoaded(results)) =>
            /\ error' = <<"Erro ao analisar o CSV: ", results.errors[1],
                          ". Por favor, verifique o formato do arquivo.">>
            /\ UNCHANGED <<data, headers, filteredData, searchTerm, activeSearchTerm,
                           activeTeamFilter, currentPage, rowsPerPage>>]_vars

\* the error of a failed parse is recorded over a loaded, filtered dataset on page 2
C10_Witness ==
    /\ error # NoText
    /\ Len(error) = 3
    /\ error[2] = "e1"
    /\ Len(data) > 0
    /\ activeSearchTerm # NoText
    /\ currentPage = 2

----------------------------------------------------------------------------
\* the rows of a parse result that carry a value: some field is not empty and not
\* whitespace only
HasValue(row) == \E c \in DOMAIN row : trim(row[c]) # NoText

SurvivingRows(rows) == SelectSeq(rows, HasValue)

LoadSucceeds(results) == Len(results.errors) = 0 /\ SurvivingRows(results.data) # << >>

\* C11: a load in which no row has a non-blank field fails: an error message is
\* recorded (the empty-file message when the parse reported no error) and master,
\* columns, view, filter specification and page state stay as they were.
C11_EmptyLoadIsRejected ==
    [][\A results \in ParseResults :
         (SurvivingRows(results.data) = << >> /\ fileLoaded(results)) =>
            /\ error' # NoText
            /\ (Len(results.errors) = 0 =>
                  error' = <<"O arquivo CSV esta vazio ou nao pode ser analisado corretamente.">>)
            /\ UNCHANGED <<data, headers, filteredData, searchTerm, activeSearchTerm,
                           activeTeamFilter, currentPage, rowsPerPage>>]_vars

\* the empty-file message is on display over a loaded dataset narrowed by a team filter
C11_Witness ==
    /\ error = <<"O arquivo CSV esta vazio ou nao pode ser analisado corretamente.">>
    /\ Len(data) > 0
    /\ activeTeamFilter = "t1"
    /\ Len(filteredData) > 0
    /\ Len(filteredData) < Len(data)

----------------------------------------------------------------------------
\* C12: an append attempted with fewer than 2 columns records an error message and
\* leaves master, view, filter specification and current page as they were.
C12_AppendNeedsTwoColumns ==
    [][(Len(headers) < 2 /\ handleAddLegends) =>
          /\ error' # NoText
          /\ error' = <<"Para adicionar lendas, o CSV carregado deve ter pelo menos duas colunas (chave e nome).">>
          /\ UNCHANGED <<data, filteredData, headers, searchTerm, activeSearchTerm,
                         activeTeamFilter, currentPage>>]_vars

\* the message is on display over a loaded one-column file with a team filter set
C12_Witness ==
    /\ error = <<"Para adicionar lendas, o CSV carregado deve ter pelo menos duas colunas (chave e nome).">>
    /\ Len(headers) = 1
    /\ Len(data) > 0
    /\ activeTeamFilter = "t1"
    /\ Len(filteredData) = Len(data)

----------------------------------------------------------------------------
\* C13: a successful load makes the master exactly the input rows with a non-blank
\* field, in input order, the column list the input field list and the view the
\* master; typed and active search term are empty, no team is set, the page is 1.
C13_LoadReplacesEverything ==
    [][\A results \in ParseResults :
         (LoadSucceeds(results) /\ fileLoaded(results)) =>
            /\ data' = SurvivingRows(results.data)
            /\ headers' = results.fields
            /\ filteredData' = data'
            /\ searchTerm' = NoText
            /\ activeSearchTerm' = NoText
            /\ activeTeamFilter' = Null
            /\ currentPage' = 1]_vars

\* a freshly loaded two-row file, one of whose rows has a value in the name column
\* only, under a page size chosen before the load
C13_Witness ==
    /\ edits = 0
    /\ Len(headers) = 3
    /\ Len(data) = 2
    /\ data[1]["id"] = NoText
    /\ data[1]["name"] = <<"b", "A">>
    /\ data[2]["id"] = <<"1">>
    /\ filteredData = data
    /\ searchTerm = NoText
    /\ activeSearchTerm = NoText
    /\ activeTeamFilter = Null
    /\ currentPage = 1
    /\ rowsPerPage = 2
    /\ error = NoText

----------------------------------------------------------------------------
\* C14: after a successful load every row of the master has a non-empty value under
\* the key column; input rows with an empty or whitespace key are dropped.
C14_LoadedKeysNonEmpty ==
    [][\A results \in ParseResults :
         (LoadSucceeds(results) /\ fileLoaded(results)) =>
            \A i \in 1..Len(data') : trim(data'[i][headers'[1]]) # NoText]_vars

----------------------------------------------------------------------------
\* C15: when a load completes successfully no two rows of the master have the same
\* key-column value, whatever the input rows.
C15_LoadedKeysUnique ==
    [][\A results \in ParseResults :
         (LoadSucceeds(results) /\ fileLoaded(results)) =>
            \A i, j \in 1..Len(data') :
               i # j => data'[i][headers'[1]] # data'[j][headers'[1]]]_vars

----------------------------------------------------------------------------
\* C16: reset can be taken in every settled state and leaves master, view and column
\* list empty, both search terms empty, no team set, page 1, the default page size
\* and no error message.
C16_ResetClearsEverything ==
    /\ [](~effectPending => ENABLED handleReset)
    /\ [][handleReset =>
            /\ data' = << >>
            /\ filteredData' = << >>
            /\ headers' = << >>
            /\ searchTerm' = NoText
            /\ activeSearchTerm' = NoText
            /\ activeTeamFilter' = Null
            /\ currentPage' = 1
            /\ rowsPerPage' = DEFAULT_ROWS_PER_PAGE
            /\ error' = NoText]_vars

\* the cleared state a reset leaves behind a file that had been loaded and edited
C16_Witness ==
    /\ edits = 1
    /\ data = << >>
    /\ filteredData = << >>
    /\ headers = << >>
    /\ searchTerm = NoText
    /\ activeSearchTerm = NoText
    /\ activeTeamFilter = Null
    /\ currentPage = 1
    /\ rowsPerPage = DEFAULT_ROWS_PER_PAGE
    /\ error = NoText

----------------------------------------------------------------------------
\* C17: selecting a team key that is not in the team configuration skips the team
\* stage: the view becomes the view of no team filter and the same search term.
C17_UnknownTeamSkipsTeamStage ==
    [][\A teamKey \in AnyTeamKeys :
         (~TeamConfigured(teamKey) /\ selectTeam(teamKey)) =>
            filteredData' = Apply(data, Null, activeSearchTerm)]_vars

----------------------------------------------------------------------------
\* C18: a cell edit patches the view like the master and does not re-filter: the view
\* keeps its length and its sequence of row keys, and its rows with the edited key
\* carry the new value.
C18_EditKeepsViewShape ==
    [][\A rowToUpdate \in Range(data), v \in EditValues :
         \A c \in Range(headers) :
            editCell(rowToUpdate, c, v) =>
               /\ Len(filteredData') = Len(filteredData)
               /\ KeysOf(filteredData') = KeysOf(filteredData)
               /\ \A i \in 1..Len(filteredData) :
                     filteredData[i][KeyColumn] = rowToUpdate[KeyColumn]
                        => filteredData'[i][c] = v]_vars

----------------------------------------------------------------------------
\* a term with whitespace added around it, and a term in another letter case
Padded(s) == { s, <<" ">> \o s, s \o <<" ">>, <<" ", " ">> \o s \o <<" ">> }

SwapCase(s) ==
    [i \in 1..Len(s) |->
        CASE s[i] = "a" -> "A"
          [] s[i] = "A" -> "a"
          [] s[i] = "b" -> "B"
          [] s[i] = "B" -> "b"
          [] OTHER      -> s[i]]

Recased(s) == { s, SwapCase(s), toLowerCase(s) }

BaseTerms == { NoText, <<"A">>, <<"b", "A">>, <<"A", "b">> }

\* C19: the view of a submitted term depends only on the trimmed, case-folded term:
\* padding a term with whitespace or changing its letter case gives the same view,
\* and a term that is empty after trimming restricts nothing.
C19_SearchIgnoresPaddingAndCase ==
    \A team \in TeamArgs, s \in BaseTerms :
        /\ LET view == filterResults(data, s, team, headers)
           IN  \A r \in Recased(s) : \A t \in Padded(r) :
                  filterResults(data, t, team, headers) = view
        /\ trim(s) = NoText =>
              \A t \in Padded(s) :
                 filterResults(data, t, team, headers) = Apply(data, team, NoText)

\* the submitted term "A" selects the row whose name holds "bA" and drops another row
C19_Witness ==
    /\ edits = 0
    /\ "name" \in Range(headers)
    /\ searchTerm = <<" ", "A">>
    /\ activeSearchTerm = <<"A">>
    /\ Len(filteredData) > 0
    /\ Len(filteredData) < Len(data)
    /\ \A i \in 1..Len(filteredData) : filteredData[i]["name"] = <<"b", "A">>
    /\ filteredData = filterResults(data, <<"a", " ">>, activeTeamFilter, headers)

----------------------------------------------------------------------------
\* C20: the filter applied to its own output with the same team and term returns
\* that output unchanged.
C20_FilterIdempotent ==
    \A team \in TeamArgs, term \in TermArgs :
        LET view == filterResults(data, term, team, headers)
        IN  filterResults(view, term, team, headers) = view

\* re-applying the active team and term to a view that both stages narrowed returns it
C20_Witness ==
    /\ edits = 0
    /\ activeTeamFilter = "t1"
    /\ activeSearchTerm = <<"A">>
    /\ Len(filteredData) > 0
    /\ Len(filteredData) < Len(data)
    /\ filteredData = filterResults(data, activeSearchTerm, activeTeamFilter, headers)
    /\ filterResults(filteredData, activeSearchTerm, activeTeamFilter, headers) = filteredData

----------------------------------------------------------------------------
FilterOperation ==
    triggerSearch \/ handleClearSearch \/ handleSelectTeam \/ handleClearTeamFilter

\* C21: search submit, search clear, team select and team clear leave the master as it
\* was, row for row, and the rows of the resulting view are in the master's order.
C21_FilterOpsKeepMaster ==
    [][FilterOperation => (data' = data /\ IsSubsequence(filteredData', data))]_vars

\* a search kept the first and the last row of the master and dropped a row in between
C21_Witness ==
    /\ edits = 0
    /\ activeSearchTerm = <<"A">>
    /\ Len(filteredData) >= 2
    /\ Len(filteredData) < Len(data)
    /\ filteredData[1] = data[1]
    /\ filteredData[Len(filteredData)] = data[Len(data)]
    /\ IsSubsequence(filteredData, data)

----------------------------------------------------------------------------
\* C22: an append all of whose candidates carry a key that is already in the master
\* adds no row and reports nothing: master, view, error message, filter specification
\* and current page stay as they were.
C22_DuplicateAppendIsNoOp ==
    [][(Len(headers) >= 2 /\ AbsentCandidates(data) = << >> /\ handleAddLegends) =>
          UNCHANGED <<data, filteredData, headers, error, searchTerm, activeSearchTerm,
                      activeTeamFilter, currentPage, rowsPerPage>>]_vars

\* every candidate key is in the master while the view still shows an edited row that
\* the active term no longer selects: an append here must not refresh the view
C22_Witness ==
    /\ Len(headers) >= 2
    /\ Len(data) > 0
    /\ AbsentCandidates(data) = << >>
    /\ edits = 1
    /\ activeSearchTerm = <<"A">>
    /\ ~ViewIsFilterOfMaster

----------------------------------------------------------------------------
AppendAddsRows == handleAddLegends /\ Len(data') > Len(data)

\* C23: right after a search submit, search clear, team select or team clear, and after
\* an append that adds a row, the view is the filter of the master as it is then with
\* the team and term as they are then, and the current page is 1.
C23_FilterActionsRefilter ==
    [][(FilterOperation \/ AppendAddsRows) =>
          /\ filteredData' = Apply(data', activeTeamFilter', activeSearchTerm')
          /\ currentPage' = 1]_vars

\* after an edit, a filter action has dropped the edited row, which the active term
\* does not select, from the view
C23_Witness ==
    /\ edits = 1
    /\ "name" \in Range(headers)
    /\ activeSearchTerm = <<"A">>
    /\ currentPage = 1
    /\ Len(filteredData) > 0
    /\ ViewIsFilterOfMaster
    /\ \E i \in 1..Len(data) :
          /\ data[i]["name"] = <<"b">>
          /\ \A j \in 1..Len(filteredData) : filteredData[j] # data[i]

----------------------------------------------------------------------------
KeysUnique(rows) ==
    \A i, j \in 1..Len(rows) : i # j => rows[i][KeyColumn] # rows[j][KeyColumn]

\* C24: when no two rows of the master share a key before an append, no two rows share
\* a key after it.
C24_AppendKeepsKeysUnique ==
    [][(Len(headers) >= 2 /\ KeysUnique(data) /\ handleAddLegends) => KeysUnique(data')]_vars

----------------------------------------------------------------------------
\* C25: whenever the view is not empty the visible slice is not empty, holds at most
\* pageSize rows and is a run of consecutive rows of the view.
C25_VisibleSliceIsValid ==
    Len(filteredData) > 0 =>
        /\ Len(paginatedData) > 0
        /\ Len(paginatedData) <= rowsPerPage
        /\ \E k \in 0..(Len(filteredData) - 1) :
              paginatedData = SubSeq(filteredData, k + 1, k + Len(paginatedData))

----------------------------------------------------------------------------
\* C26: a current page beyond the last page leads to the clamp step; that step sets
\* the page to the last page at once and leaves itself disabled; while the page is
\* within range the step is not enabled.
C26_ClampRunsOnceAndStops ==
    /\ (currentPage > PagesOf(filteredData, rowsPerPage))
          ~> (currentPage = PagesOf(filteredData, rowsPerPage))
    /\ [][clampEffect =>
            /\ currentPage > PagesOf(filteredData, rowsPerPage)
            /\ currentPage' = PagesOf(filteredData, rowsPerPage)
            /\ currentPage' <= PagesOf(filteredData', rowsPerPage')]_vars
    /\ [](currentPage <= PagesOf(filteredData, rowsPerPage) => ~ENABLED clampEffect)

\* a page far beyond the last of three pages has been requested and awaits the clamp
C26_Witness ==
    /\ currentPage = FarPage
    /\ Len(filteredData) = 5
    /\ rowsPerPage = 2
    /\ PagesOf(filteredData, rowsPerPage) = 3
    /\ ENABLED clampEffect

----------------------------------------------------------------------------
\* C27: a cell edit leaves the active search term, the active team, the page size, the
\* current page and the column list as they were; master and view keep their length.
C27_EditKeepsFilterAndPage ==
    [][isEditStep =>
          /\ UNCHANGED <<activeSearchTerm, activeTeamFilter, rowsPerPage, currentPage,
                         headers>>
          /\ Len(data') = Len(data)
          /\ Len(filteredData') = Len(filteredData)]_vars

\* an edited row is on display on page 2 of a view narrowed by a search
C27_Witness ==
    /\ edits = 1
    /\ "name" \in Range(headers)
    /\ activeSearchTerm = <<"A">>
    /\ rowsPerPage = 2
    /\ currentPage = 2
    /\ Len(filteredData) < Len(data)
    /\ \E i \in 1..Len(paginatedData) : paginatedData[i]["name"] = <<"b">>

----------------------------------------------------------------------------
\* C28: the encoder is handed the master as it is, whatever the view and the visible
\* slice are, and an export leaves every part of the state as it was.
C28_ExportHandsMaster ==
    /\ [](unparseInput = data)
    /\ [][handleDownload =>
            UNCHANGED <<data, filteredData, headers, error, searchTerm, activeSearchTerm,
                        activeTeamFilter, currentPage, rowsPerPage>>]_vars

\* the master holds an edited row and an appended row; the view is narrower than the
\* master and the visible slice narrower than the view, and the encoder gets the master
C28_Witness ==
    /\ edits = 1
    /\ Len(headers) = 3
    /\ Len(filteredData) < Len(data)
    /\ Len(paginatedData) > 0
    /\ Len(paginatedData) < Len(filteredData)
    /\ \E i \in 1..Len(data) : data[i]["name"] = <<"b">>
    /\ data[Len(data)] \in Range(Candidates)
    /\ unparseInput = data
    /\ unparseInput # filteredData
    /\ unparseInput # paginatedData

----------------------------------------------------------------------------
\* C29: the column list changes only in a successful load or a reset.
C29_ColumnsChangeOnlyOnLoadOrReset ==
    [][headers' # headers =>
          \/ handleReset
          \/ \E results \in ParseResults : LoadSucceeds(results) /\ fileLoaded(results)]_vars

\* the column list of the load is still in place after an append, a team selection, an
\* edit and a failed load
C29_Witness ==
    /\ headers = <<"id", "name", "note">>
    /\ edits = 1
    /\ Len(data) > 2
    /\ data[Len(data)] \in Range(Candidates)
    /\ activeTeamFilter = "t1"
    /\ Len(error) = 3
    /\ error[2] = "e1"
====
